---- MODULE Spec2Model ----
(***************************************************************************)
(* A model of the request-orchestration core of Andse_AI:                  *)
(*   - NeuralEngine (src/ai_engine.py): configure and the provider         *)
(*     failover of think;                                                  *)
(*   - ReasoningEngine.process_request (src/reasoning_engine.py): the      *)
(*     tool-dispatch generator, the generation step and the memory commit; *)
(*   - AutomationEngine (src/automation_engine.py): the in-memory task     *)
(*     queue and the polling loop, with EmailService.send_email            *)
(*     (src/email_service.py) as the only handler.                         *)
(*                                                                         *)
(* Text is modelled as a sequence of pieces (phrases); lower-casing and    *)
(* substring search are computed on the pieces.  Time is counted in        *)
(* minutes.                                                                *)
(***************************************************************************)
EXTENDS Integers, Sequences, FiniteSets, TLC

VARIABLES
    \* ---- NeuralEngine (src/ai_engine.py) ----
    groq_available,   \* module flag GROQ_AVAILABLE
    client,           \* self.client is set (Gemini)
    groq_client,      \* self.groq_client is set
    is_active,        \* self.is_active
    think_pc,         \* position of the running think call
    think_idx,        \* index of the model the running _try_* loop is at
    think_input,      \* user_input of the running think call
    think_history,    \* its history_objects
    think_instr,      \* its system_instruction
    think_config,     \* the clients the engine held when the call started
    think_calls,      \* provider calls made by the running think call, in order
    think_result,     \* value returned by think
    \* ---- ReasoningEngine.process_request (src/reasoning_engine.py) ----
    req_pc,           \* position of the generator
    req_user,         \* the user argument: [email, has_settings]
    req_received,     \* user_input as received
    user_input,       \* the local user_input (replaced by the image branch)
    context_extension,\* the request's context buffer
    stream,           \* fragments yielded so far
    tool_calls,       \* tool calls made so far, in order
    req_error,        \* [at, type] of the exception that left the generator
    final_prompt,     \* prompt handed to generation
    memory_log,       \* observations committed by add_memory
    llm_calls,        \* calls of llm_client.generate_response: [prompt,
                      \* provider, produced], produced being the fragments of
                      \* the provider's stream
    \* ---- AutomationEngine (src/automation_engine.py) ----
    task_queue,       \* self.task_queue
    is_running,       \* self.is_running
    now,              \* wall clock
    mon_pc,           \* position of the _monitor_tasks greenlet
    mon_now,          \* the loop's local now
    executable_tasks, \* the part of the cycle's snapshot not yet iterated
    \* ---- EmailService (src/email_service.py) ----
    mail_configured,  \* MAIL_USERNAME and MAIL_PASSWORD are both set
    mail_log,         \* runs of the body of send_email: [recipient, body, sent]
    \* ---- history of the current and the previous poll cycle ----
    cycle_queue,      \* task_queue as it was when the cycle started
    cycle_attempted,  \* tasks the cycle's loop body ran for, in order
    cycle_raised,     \* tasks whose loop body raised in this cycle
    prev_raised,      \* tasks whose loop body raised in the previous cycle
    removals,         \* every removal made by the loop: [task, handler]
    cycle_removed,    \* tasks the loop removed in this cycle, in order
    cycle_created,    \* tasks create_task appended since the cycle started
    monitors,         \* greenlets spawned on _monitor_tasks by start()
    \* ---- StreamManager.stream_text_generator (src/streaming.py) ----
    sse_pc,           \* position of the inner generator generate()
    sse_source,       \* chunks the wrapped generator has still to yield
    sse_source_raises,\* the wrapped generator raises after its last chunk
    sse_produced,     \* chunks the wrapped generator has yielded
    sse_out,          \* items generate() has yielded
    \* ---- MemoryManager (src/memory_manager.py) ----
    msg_store,        \* rows of the messages table, by id
    hist_pc,          \* position of the get_chat_history call
    hist_args,        \* its arguments and whether the query raised
    hist_retrieved,   \* the rows in the order the query returned them
    hist_result,      \* the list it returned
    prompt_calls      \* calls of build_system_prompt: [user, user_input, result]

engineVars == <<groq_available, client, groq_client, is_active, think_pc,
                think_idx, think_input, think_history, think_instr,
                think_config, think_calls, think_result>>
reqVars == <<req_pc, req_user, req_received, user_input, context_extension,
             stream, tool_calls, req_error, final_prompt, memory_log,
             llm_calls>>
schedVars == <<task_queue, is_running, now>>
loopVars == <<mon_pc, mon_now, executable_tasks, cycle_queue, cycle_attempted,
              cycle_raised, prev_raised, removals, cycle_removed, monitors>>
monVars == <<loopVars, cycle_created>>
mailVars == <<mail_configured, mail_log>>
sseVars == <<sse_pc, sse_source, sse_source_raises, sse_produced, sse_out>>
histVars == <<msg_store, hist_pc, hist_args, hist_retrieved, hist_result>>
promptVars == <<prompt_calls>>
vars == <<engineVars, reqVars, schedVars, monVars, mailVars, sseVars,
          histVars, promptVars>>

(***************************************************************************)
(* Bounds of the model.                                                    *)
(***************************************************************************)
MaxPhrases == 4
MaxTime == 3
MaxQueue == 2
MaxStarts == 2
MaxChunks == 3
MaxMessages == 3
MaxLimit == 2
MaxPromptCalls == 2

(***************************************************************************)
(* Text.                                                                   *)
(***************************************************************************)
Range(s) == {s[i] : i \in DOMAIN s}

\* str.lower() on one piece of text.
Lower(p) ==
    CASE p = "Email Me" -> "email me"
      [] p = "Analyze" -> "analyze"
      [] p = "DRAW" -> "draw"
      [] p = "Paint" -> "paint"
      [] OTHER -> p

\* text.lower(): piece by piece.
LowerText(text) == [i \in DOMAIN text |-> Lower(text[i])]

\* Pieces that hold a keyword as a proper substring.
ProperSubstrings ==
    {<<"draw", "withdraw">>, <<"search", "research">>,
     <<"analyze", "analyzed">>}

\* `kw in text`: substring search.
Contains(text, kw) ==
    \E i \in DOMAIN text : text[i] = kw \/ <<kw, text[i]>> \in ProperSubstrings

ContainsAny(text, kws) == \E kw \in kws : Contains(text, kw)

\* len() of one piece of text.
PieceLen(p) ==
    CASE p = "search" -> 6
      [] p = "Email Me" -> 8
      [] p = "remind me" -> 9
      [] p = "draw" -> 4
      [] p = "hello" -> 5
      [] p = "tok1" -> 4
      [] p = "tok2" -> 4
      [] p = "I have successfully generated the image. Please explain what I created: "
             -> 72
      [] OTHER -> 1

RECURSIVE TextLen(_)
TextLen(text) ==
    IF text = <<>> THEN 0 ELSE PieceLen(Head(text)) + TextLen(Tail(text))

\* text[:n]: each piece with the number of its characters that are kept.
Slice(text, n) ==
    LET room(i) == n - TextLen(SubSeq(text, 1, i - 1))
        kept(i) == IF PieceLen(text[i]) <= room(i) THEN PieceLen(text[i])
                   ELSE room(i)
        last == Cardinality({i \in DOMAIN text : kept(i) > 0})
    IN  [i \in 1..last |-> [piece |-> text[i], chars |-> kept(i)]]

(***************************************************************************)
(* NeuralEngine.                                                           *)
(***************************************************************************)
gemini_models == <<"gemini-2.0-flash", "gemini-1.5-flash-002",
                   "gemini-1.5-pro-002", "gemini-1.0-pro">>
groq_models == <<"llama-3.3-70b-versatile", "llama-3.1-8b-instant",
                 "mixtral-8x7b-32768">>

NeuralOffline == "NEURAL OFFLINE: verify API keys"
CriticalFailure == "Neural Critical Failure: all providers unresponsive"

\* What a provider call can do: raise, or return a text (possibly empty).
Raise == "#raise"
ResponseTexts == {"", "alpha", "beta"}
Outcomes == {Raise} \cup ResponseTexts

ThinkImageKeywords_NoPaint == {"draw", "generate image", "visualize"}
ThinkImageKeywords == {"draw", "generate image", "visualize", "paint"}
ThinkInputs == {<<"hello">>, <<"DRAW", "a cat">>, <<"Paint">>, <<"withdraw">>}

\* history_objects: Message rows with a role and a content; the default is [].
ThinkHistories ==
    {<<>>,
     <<[role |-> "user", content |-> "hi"],
       [role |-> "ai", content |-> "good morning"]>>}

\* system_instruction: the default, or the caller's persona.
DefaultInstruction == "You are ANDSE AI."
ThinkInstructions == {DefaultInstruction, "persona"}

\* The history a _try_* loop sends on its idx-th model: msgs and contents are
\* built once, before the loop, and every iteration sends the same object.
HistoryFor_Consumed(history, idx) == IF idx > 1 THEN <<>> ELSE history
HistoryFor(history, idx) == history

\* msgs of _try_groq.
GroqMessages(prompt, history, instr) ==
    <<[role |-> "system", content |-> instr]>>
    \o [i \in DOMAIN history |->
           [role |-> IF history[i].role = "user" THEN "user" ELSE "assistant",
            content |-> history[i].content]]
    \o <<[role |-> "user", content |-> prompt]>>

\* contents of _try_gemini.
GeminiContents(prompt, history) ==
    [i \in DOMAIN history |->
        [role |-> IF history[i].role = "user" THEN "user" ELSE "model",
         parts |-> history[i].content]]
    \o <<[role |-> "user", parts |-> prompt]>>

\* config of _try_gemini.
GeminiConfig(instr) == [system_instruction |-> instr]

\* What think does to the engine's own fields: nothing.
ThinkFrame_DropsGroq ==
    /\ groq_client' = FALSE
    /\ UNCHANGED <<groq_available, client, is_active>>
ThinkFrame == UNCHANGED <<groq_available, client, groq_client, is_active>>

\* The arguments of the running call.
ThinkArgs == <<think_input, think_history, think_instr, think_config>>

\* _generate_image: the keywords "draw" and "generate image" are cut out of
\* the lower-cased prompt; the seed is random and left out of the result.
GenerateImageResult(prompt) ==
    <<"![Output]">> \o SelectSeq(LowerText(prompt),
                                 LAMBDA p : p \notin {"draw", "generate image"})

\* The `except Exception` clauses of _try_groq and _try_gemini.
OnProviderError_Propagate == "propagate"
OnProviderError == "continue"

\* _try_groq returns f"{content}" as soon as a call returns.
GroqReturn(content) == content

\* `if resp: return resp` in think.
Truthy(resp) == resp # ""

\* `if response.text: return response.text` in _try_gemini.
GeminiAccepts_Never(text) == FALSE
GeminiAccepts(text) == text # ""

\* The last line of think.
ExhaustedResult == CriticalFailure

configure_ActiveOnKey(gemini_key, groq_key, gemini_ok, groq_ok) ==
    LET gem == gemini_key /\ gemini_ok
        grq == groq_key /\ groq_available /\ groq_ok
    IN  /\ client' = (client \/ gem)
        /\ groq_client' = (groq_client \/ grq)
        /\ is_active' = (gemini_key \/ groq_key)
        /\ UNCHANGED <<groq_available, think_pc, think_idx, ThinkArgs,
                       think_calls, think_result>>
configure(gemini_key, groq_key, gemini_ok, groq_ok) ==
    LET gem == gemini_key /\ gemini_ok
        grq == groq_key /\ groq_available /\ groq_ok
    IN  /\ client' = (client \/ gem)
        /\ groq_client' = (groq_client \/ grq)
        /\ is_active' = (gem \/ grq)
        /\ UNCHANGED <<groq_available, think_pc, think_idx, ThinkArgs,
                       think_calls, think_result>>

Configure ==
    /\ \E gemini_key, groq_key, gemini_ok, groq_ok \in BOOLEAN :
           configure(gemini_key, groq_key, gemini_ok, groq_ok)
    /\ UNCHANGED <<reqVars, schedVars, monVars, mailVars>>
    /\ UNCHANGED <<sseVars, histVars, promptVars>>

\* think returns `value` (a text: a sequence of pieces).
ThinkReturns(value) ==
    /\ think_result' = value
    /\ think_pc' = "done"
    /\ think_idx' = 0

\* The code of think after _try_groq: `if self.client:` and what follows.
EnterGemini ==
    IF client
    THEN /\ think_pc' = "gemini"
         /\ think_idx' = 1
         /\ UNCHANGED think_result
    ELSE ThinkReturns(<<ExhaustedResult>>)

think(input, history_objects, system_instruction) ==
    /\ think_pc = "idle"
    /\ think_input' = input
    /\ think_history' = history_objects
    /\ think_instr' = system_instruction
    /\ think_config' = [client |-> client, groq_client |-> groq_client]
    /\ think_calls' = <<>>
    /\ IF ~is_active
       THEN ThinkReturns(<<NeuralOffline>>)
       ELSE IF ContainsAny(LowerText(input), ThinkImageKeywords)
       THEN ThinkReturns(GenerateImageResult(input))
       ELSE IF groq_client
       THEN /\ think_pc' = "groq"
            /\ think_idx' = 1
            /\ UNCHANGED think_result
       ELSE EnterGemini
    /\ ThinkFrame

Think ==
    /\ \E input \in ThinkInputs, history_objects \in ThinkHistories,
          system_instruction \in ThinkInstructions :
           think(input, history_objects, system_instruction)
    /\ UNCHANGED <<reqVars, schedVars, monVars, mailVars>>
    /\ UNCHANGED <<sseVars, histVars, promptVars>>

\* One iteration of the loop of _try_groq: the call on groq_models[think_idx].
GroqCall ==
    /\ think_pc = "groq"
    /\ \E out \in Outcomes :
        /\ think_calls' = Append(think_calls,
               [provider |-> "groq", index |-> think_idx, out |-> out,
                messages |-> GroqMessages(think_input,
                                HistoryFor(think_history, think_idx),
                                think_instr)])
        /\ IF out = Raise
           THEN IF OnProviderError # "continue"
                THEN /\ think_pc' = "raised"
                     /\ UNCHANGED <<think_idx, think_result>>
                ELSE IF think_idx < Len(groq_models)
                THEN /\ think_idx' = think_idx + 1
                     /\ UNCHANGED <<think_pc, think_result>>
                ELSE EnterGemini
           ELSE IF Truthy(GroqReturn(out))
                THEN ThinkReturns(<<GroqReturn(out)>>)
                ELSE EnterGemini
    /\ ThinkFrame
    /\ UNCHANGED ThinkArgs
    /\ UNCHANGED <<reqVars, schedVars, monVars, mailVars>>
    /\ UNCHANGED <<sseVars, histVars, promptVars>>

\* One iteration of the loop of _try_gemini.
GeminiCall ==
    /\ think_pc = "gemini"
    /\ \E out \in Outcomes :
        /\ think_calls' = Append(think_calls,
               [provider |-> "gemini", index |-> think_idx, out |-> out,
                contents |-> GeminiContents(think_input,
                                HistoryFor(think_history, think_idx)),
                config |-> GeminiConfig(think_instr)])
        /\ IF out = Raise /\ OnProviderError # "continue"
           THEN /\ think_pc' = "raised"
                /\ UNCHANGED <<think_idx, think_result>>
           ELSE IF out # Raise /\ GeminiAccepts(out)
           THEN ThinkReturns(<<out>>)
           ELSE IF think_idx < Len(gemini_models)
           THEN /\ think_idx' = think_idx + 1
                /\ UNCHANGED <<think_pc, think_result>>
           ELSE ThinkReturns(<<ExhaustedResult>>)
    /\ ThinkFrame
    /\ UNCHANGED ThinkArgs
    /\ UNCHANGED <<reqVars, schedVars, monVars, mailVars>>
    /\ UNCHANGED <<sseVars, histVars, promptVars>>

\* The caller takes the value; the engine is free for the next call.
ThinkDone ==
    /\ think_pc = "done"
    /\ think_pc' = "idle"
    /\ ThinkFrame
    /\ UNCHANGED <<think_idx, ThinkArgs, think_calls, think_result>>
    /\ UNCHANGED <<reqVars, schedVars, monVars, mailVars>>
    /\ UNCHANGED <<sseVars, histVars, promptVars>>

(***************************************************************************)
(* EmailService.send_email and the way its two callers call it.            *)
(***************************************************************************)
\* def send_email(self, recipient, subject, body_html)
send_email_params == {"recipient", "subject", "body_html"}

\* Both call sites pass recipient=, subject=, body=.
EmailCallKeywords == {"recipient", "subject", "body"}

\* Python binds a call's keyword arguments to the parameters: a keyword that
\* names no parameter, or a parameter left without a value, is a TypeError
\* raised at the call, before the body runs.
Binds(keywords, params) == keywords = params

\* The body of send_email: False without credentials, else True when SMTP
\* accepts the message and False when it raises (the body catches it).
SendEmailBody(smtp_ok) == mail_configured /\ smtp_ok

(***************************************************************************)
(* LLMClient.generate_response (src/llm_api.py).                           *)
(***************************************************************************)
\* What iterating a provider stream would produce: its fragments, ended by
\* Raise when the iteration raises (self.groq_client is None, or a network
\* or model error while the stream is read).
ProviderStreams ==
    {<<>>, <<"tok1">>, <<"tok1", "tok2">>, <<Raise>>, <<"tok1", Raise>>}

\* generate_response holds a yield, so it is a generator function: its
\* `return self._stream_gemini(...)` / `return self._stream_groq(...)` ends the
\* generator with the inner stream as the StopIteration value and yields none
\* of its fragments; the inner generator is never started, so nothing raises
\* inside the try.
GenerateResponseYields(inner) == <<>>

(***************************************************************************)
(* ReasoningEngine.process_request.                                        *)
(***************************************************************************)
Phrases == {"search", "Email Me", "remind me", "draw", "hello"}
Utterances == UNION {[1..n -> Phrases] : n \in 1..MaxPhrases}
Users == {[email |-> "u@example.org", has_settings |-> b] : b \in BOOLEAN}

\* The four `if` blocks of the action layer, in source order.
ToolOrder_ImageFirst == <<"image", "search", "email", "schedule">>
ToolOrder == <<"search", "email", "schedule", "image">>

Triggers(tool) ==
    CASE tool = "search" ->
             {"search", "latest", "current", "news", "who is", "weather"}
      [] tool = "email" -> {"email me", "send email"}
      [] tool = "schedule" -> {"remind me", "schedule"}
      [] tool = "image" -> {"generate image", "create a picture", "draw"}

Matches(tool, tl) == ContainsAny(tl, Triggers(tool))

\* The fragment yielded first in a tool's block.
Progress(tool) ==
    CASE tool = "search" -> <<"Initiating Global Network Scan...">>
      [] tool = "email" -> <<"Accessing SMTP Protocol...">>
      [] tool = "schedule" -> <<"Configuring Temporal Trigger...">>
      [] tool = "image" -> <<"Initializing Neural Rendering...">>

SearchResults == {"Title: ... Summary: ...", "Error scanning web: timeout"}
NoImage == ""
ImageUrls == {NoImage, "/static/uploads/images/output/gen_1.png"}

\* timedelta(minutes=2)
ReminderDelay == 2

\* int(time.time() * 1000) with the clock in minutes.
TaskId_Wrapped(t) == (t * 60 * 1000) % 100000
TaskId(t) == t * 60 * 1000

\* The task AutomationEngine.create_task builds.
NewTask(task_type, payload, trigger_time) ==
    [type |-> task_type, payload |-> payload, trigger_time |-> trigger_time,
     id |-> TaskId(now)]

create_task(task_type, payload, trigger_time) ==
    /\ task_queue' =
           Append(task_queue, NewTask(task_type, payload, trigger_time))
    /\ cycle_created' =
           Append(cycle_created, NewTask(task_type, payload, trigger_time))

\* The payload the reminder branch builds from the local user_input.
ReminderPayload(user, ui) ==
    [email |-> user.email, content |-> <<"REMINDER: ">> \o ui]

\* The index in ToolOrder of the first block from k on whose condition holds,
\* 0 when there is none.
NextMatch_None(k, tl) == 0
NextMatch(k, tl) ==
    LET S == {j \in k..Len(ToolOrder) : Matches(ToolOrder[j], tl)}
    IN  IF S = {} THEN 0 ELSE CHOOSE j \in S : \A i \in S : j <= i

\* user_input[:100] and full_response[:100] in the memory commit.
MemoryCut == 100

\* The observation handed to add_memory.
Observation(ui, response) ==
    [interaction |-> Slice(ui, MemoryCut), result |-> Slice(response, MemoryCut)]

\* Step 2: the context buffer after the ingestion of the attached file.
FileTypes == {"none", "documents", "images"}
DocumentData ==
    <<"[DOCUMENT_DATA_START]", "text of the document", "[DOCUMENT_DATA_END]">>
Ingest(file_type) == IF file_type = "documents" THEN DocumentData ELSE <<>>

\* final_prompt = f"{context_extension}\nUser Request: {user_input}"
FinalPrompt_NoContext(ctx, ui) == <<"User Request: ">> \o ui
FinalPrompt(ctx, ui) == ctx \o <<"User Request: ">> \o ui

\* Step 4 and 5: the final prompt, the generation loop and the memory commit.
\* user.settings has no attribute primary_llm (src/database/models.py), so
\* evaluating the provider argument raises AttributeError when the user has
\* a settings row.
Generation(user, strm, ui, ctx) ==
    /\ final_prompt' = FinalPrompt(ctx, ui)
    /\ IF user.has_settings
       THEN /\ req_pc' = "raised"
            /\ req_error' = [at |-> "generate", type |-> "AttributeError"]
            /\ stream' = strm
            /\ UNCHANGED <<memory_log, llm_calls>>
       ELSE \E inner \in ProviderStreams :
              LET chunks == GenerateResponseYields(inner)
              IN  /\ llm_calls' = Append(llm_calls,
                        [prompt |-> final_prompt', provider |-> "gemini",
                         produced |-> inner])
                  /\ stream' = strm \o [i \in DOMAIN chunks |-> <<chunks[i]>>]
                  /\ memory_log' = Append(memory_log, Observation(ui, chunks))
                  /\ req_pc' = "done"
                  /\ UNCHANGED req_error

\* The position of the block that follows a tool's block.
After(tool) == 1 + CHOOSE j \in DOMAIN ToolOrder : ToolOrder[j] = tool

\* Run the generator from the k-th block on, to its next yield or its end.
Proceed(user, k, strm, ui, ctx, tl) ==
    LET j == NextMatch(k, tl)
    IN  IF j # 0
        THEN /\ stream' = Append(strm, Progress(ToolOrder[j]))
             /\ req_pc' = ToolOrder[j]
             /\ UNCHANGED <<req_error, final_prompt, memory_log, llm_calls>>
        ELSE Generation(user, strm, ui, ctx)

text_lower == LowerText(req_received)

\* process_request is called and the consumer asks for the first fragment.
StartRequest ==
    /\ req_pc = "idle"
    /\ Len(task_queue) < MaxQueue
    /\ \E user \in Users, utterance \in Utterances, file_type \in FileTypes :
        /\ req_user' = user
        /\ req_received' = utterance
        /\ user_input' = utterance
        /\ context_extension' = Ingest(file_type)
        /\ tool_calls' = <<>>
        /\ Proceed(user, 1, <<>>, utterance, Ingest(file_type),
                   LowerText(utterance))
    /\ UNCHANGED <<engineVars, schedVars, monVars, mailVars>>
    /\ UNCHANGED <<sseVars, histVars, promptVars>>

\* Resumed after the search fragment: lines 53-55, then on.
ResumeSearch ==
    /\ req_pc = "search"
    /\ \E results \in SearchResults :
        /\ context_extension' =
               context_extension \o <<"[WEB_SEARCH_RESULTS]: ", results>>
        /\ tool_calls' = Append(tool_calls, "search")
        /\ Proceed(req_user, After("search"), stream, user_input,
                   context_extension', text_lower)
    /\ UNCHANGED <<req_user, req_received, user_input>>
    /\ UNCHANGED <<engineVars, schedVars, monVars, mailVars>>
    /\ UNCHANGED <<sseVars, histVars, promptVars>>

\* Resumed after the email fragment: lines 61-70.  The call does not bind
\* (body= names no parameter), so TypeError leaves the generator.  Were it
\* to bind, send_email would return a bool and result['success'] would
\* raise TypeError as well, after the message has gone out.
ResumeEmail ==
    /\ req_pc = "email"
    /\ tool_calls' = Append(tool_calls, "email")
    /\ req_pc' = "raised"
    /\ req_error' = [at |-> "email", type |-> "TypeError"]
    /\ IF Binds(EmailCallKeywords, send_email_params)
       THEN \E smtp_ok \in BOOLEAN :
              mail_log' = Append(mail_log,
                  [recipient |-> req_user.email,
                   body |-> <<"Context: ">> \o user_input,
                   sent |-> SendEmailBody(smtp_ok)])
       ELSE UNCHANGED mail_log
    /\ UNCHANGED <<req_user, req_received, user_input, context_extension,
                   stream, final_prompt, memory_log, llm_calls,
                   mail_configured>>
    /\ UNCHANGED <<engineVars, schedVars, monVars>>
    /\ UNCHANGED <<sseVars, histVars, promptVars>>

\* Resumed after the reminder fragment: lines 77-83.
ResumeSchedule ==
    /\ req_pc = "schedule"
    /\ create_task("email_report",
                   ReminderPayload(req_user, user_input),
                   now + ReminderDelay)
    /\ tool_calls' = Append(tool_calls, "schedule")
    /\ stream' = Append(stream, <<"Temporal Trigger Set: ">> \o user_input)
    /\ req_pc' = "schedule_set"
    /\ UNCHANGED <<req_user, req_received, user_input, context_extension,
                   req_error, final_prompt, memory_log, llm_calls,
                   is_running, now>>
    /\ UNCHANGED <<engineVars, loopVars, mailVars>>
    /\ UNCHANGED <<sseVars, histVars, promptVars>>

\* Resumed after the "Temporal Trigger Set" fragment.
ResumeScheduleSet ==
    /\ req_pc = "schedule_set"
    /\ Proceed(req_user, After("schedule"), stream, user_input,
               context_extension, text_lower)
    /\ UNCHANGED <<req_user, req_received, user_input, context_extension,
                   tool_calls>>
    /\ UNCHANGED <<engineVars, schedVars, monVars, mailVars>>
    /\ UNCHANGED <<sseVars, histVars, promptVars>>

\* Resumed after the image fragment: lines 88-93, up to the yield of the
\* image or of the rendering error.
ResumeImage ==
    /\ req_pc = "image"
    /\ \E image_url \in ImageUrls :
        /\ tool_calls' = Append(tool_calls, "image")
        /\ IF image_url # NoImage
           THEN /\ stream' = Append(stream, <<"![Generated Image]", image_url>>)
                /\ req_pc' = "image_ok"
           ELSE /\ stream' = Append(stream, <<"Rendering Error">>)
                /\ req_pc' = "image_err"
    /\ UNCHANGED <<req_user, req_received, user_input, context_extension,
                   req_error, final_prompt, memory_log, llm_calls>>
    /\ UNCHANGED <<engineVars, schedVars, monVars, mailVars>>
    /\ UNCHANGED <<sseVars, histVars, promptVars>>

ImageSplice_Keep(ui) == ui
ImageSplice(ui) ==
    <<"I have successfully generated the image. Please explain what I created: ">>
        \o ui

\* Resumed after the image was yielded: line 91, then step 4.
ResumeImageOk ==
    /\ req_pc = "image_ok"
    /\ user_input' = ImageSplice(user_input)
    /\ Proceed(req_user, After("image"), stream, user_input',
               context_extension, text_lower)
    /\ UNCHANGED <<req_user, req_received, context_extension, tool_calls>>
    /\ UNCHANGED <<engineVars, schedVars, monVars, mailVars>>
    /\ UNCHANGED <<sseVars, histVars, promptVars>>

\* Resumed after the rendering error was yielded.
ResumeImageErr ==
    /\ req_pc = "image_err"
    /\ Proceed(req_user, After("image"), stream, user_input,
               context_extension, text_lower)
    /\ UNCHANGED <<req_user, req_received, user_input, context_extension,
                   tool_calls>>
    /\ UNCHANGED <<engineVars, schedVars, monVars, mailVars>>
    /\ UNCHANGED <<sseVars, histVars, promptVars>>

\* The consumer stops iterating while the generator is suspended at a yield
\* (the client has gone): the generator is closed, GeneratorExit is raised at
\* that yield and none of the code after it runs.
SuspendedAt ==
    {"search", "email", "schedule", "schedule_set", "image", "image_ok",
     "image_err"}
Disconnect ==
    /\ req_pc \in SuspendedAt
    /\ req_pc' = "closed"
    /\ UNCHANGED <<req_user, req_received, user_input, context_extension,
                   stream, tool_calls, req_error, final_prompt, memory_log,
                   llm_calls>>
    /\ UNCHANGED <<engineVars, schedVars, monVars, mailVars>>
    /\ UNCHANGED <<sseVars, histVars, promptVars>>

\* Time passes.
Tick ==
    /\ now < MaxTime
    /\ now' = now + 1
    /\ UNCHANGED <<task_queue, is_running>>
    /\ UNCHANGED <<engineVars, reqVars, monVars, mailVars>>
    /\ UNCHANGED <<sseVars, histVars, promptVars>>

(***************************************************************************)
(* AutomationEngine: producers and the polling loop.                       *)
(***************************************************************************)
\* Task types named by create_task's docstring; only email_report has a
\* handler in _monitor_tasks.
TaskTypes == {"email_report", "cleanup"}
PayloadsOf(task_type) ==
    IF task_type = "email_report"
    THEN {ReminderPayload([email |-> "u@example.org"], <<"remind me">>)}
    ELSE {[folder |-> "AUDIO_CACHE"]}
TriggerOffsets == {0, ReminderDelay}

\* Any producer calls create_task.
CreateTask ==
    /\ Len(task_queue) < MaxQueue
    /\ \E task_type \in TaskTypes, offset \in TriggerOffsets :
        \E payload \in PayloadsOf(task_type) :
           create_task(task_type, payload, now + offset)
    /\ UNCHANGED <<is_running, now>>
    /\ UNCHANGED <<engineVars, reqVars, loopVars, mailVars>>
    /\ UNCHANGED <<sseVars, histVars, promptVars>>

\* [t for t in self.task_queue if t['trigger_time'] <= now]
DueTasks_All(queue, t) == queue
DueTasks(queue, t) == SelectSeq(queue, LAMBDA task : task.trigger_time <= t)

\* `for task in executable_tasks`: the list is walked from its first element
\* to its last.
IterationOrder_Reversed(tasks) ==
    [i \in DOMAIN tasks |-> tasks[Len(tasks) + 1 - i]]
IterationOrder(tasks) == tasks

\* What the for loop has still to iterate after an iteration: the rest of
\* the list built at the top of the cycle, whatever self.task_queue holds by
\* then.
PendingAfter_Live(rest, queue, t) == DueTasks(queue, t)
PendingAfter(rest, queue, t) == rest

\* list.remove(x): drops the first element equal to x.
RemoveFirst_PopFront(queue, x) == Tail(queue)
RemoveFirst(queue, x) ==
    LET i == CHOOSE i \in DOMAIN queue :
                 queue[i] = x /\ \A j \in 1..(i - 1) : queue[j] # x
    IN  [k \in 1..(Len(queue) - 1) |-> IF k < i THEN queue[k] ELSE queue[k + 1]]

\* What `except Exception as e: logger.error(...)` does to the queue.
QueueAfterRaise_Drop(queue, task) ==
    IF task \in Range(queue) THEN RemoveFirst(queue, task) ELSE queue
QueueAfterRaise(queue, task) == queue

\* `except Exception as e:` inside the for loop catches what the try block
\* raises and logs it.
OnTaskError_Propagate == "propagate"
OnTaskError == "log"

\* After gevent.sleep(10) the loop is back at its `while self.is_running`.
AfterSleep_Exit == "exited"
AfterSleep == "top"

\* start(): gevent.spawn(self._monitor_tasks), whatever was spawned before.
Start ==
    /\ monitors < MaxStarts
    /\ monitors' = monitors + 1
    /\ UNCHANGED <<mon_pc, mon_now, executable_tasks, cycle_queue,
                   cycle_attempted, cycle_raised, prev_raised, removals,
                   cycle_removed, cycle_created>>
    /\ UNCHANGED <<engineVars, reqVars, schedVars, mailVars>>
    /\ UNCHANGED <<sseVars, histVars, promptVars>>

\* Top of the while loop: now, and the snapshot of the due tasks.
PollBegin ==
    /\ monitors >= 1
    /\ mon_pc = "top"
    /\ is_running
    /\ mon_now' = now
    /\ executable_tasks' = IterationOrder(DueTasks(task_queue, now))
    /\ mon_pc' = IF executable_tasks' = <<>> THEN "sleep" ELSE "exec"
    /\ cycle_queue' = task_queue
    /\ cycle_attempted' = <<>>
    /\ cycle_raised' = {}
    /\ prev_raised' = cycle_raised
    /\ cycle_removed' = <<>>
    /\ cycle_created' = <<>>
    /\ UNCHANGED <<removals, monitors>>
    /\ UNCHANGED <<engineVars, reqVars, schedVars, mailVars>>
    /\ UNCHANGED <<sseVars, histVars, promptVars>>

\* One iteration of `for task in executable_tasks`: the try block and its
\* except clause.
PollExec ==
    /\ mon_pc = "exec"
    /\ LET task == Head(executable_tasks)
           is_email == task.type = "email_report"
           bound == Binds(EmailCallKeywords, send_email_params)
           \* the call raises TypeError before the body of send_email runs
           call_raises == is_email /\ ~bound
           \* list.remove raises ValueError when the task is not in the list
           remove_raises == ~call_raises /\ task \notin Range(task_queue)
           raises == call_raises \/ remove_raises
       IN  /\ cycle_attempted' = Append(cycle_attempted, task)
           /\ \E smtp_ok \in BOOLEAN :
                LET sent == SendEmailBody(smtp_ok)
                IN  /\ mail_log' =
                          IF is_email /\ bound
                          THEN Append(mail_log,
                                   [recipient |-> task.payload.email,
                                    body |-> task.payload.content,
                                    sent |-> sent])
                          ELSE mail_log
                    /\ IF raises
                       THEN /\ task_queue' = QueueAfterRaise(task_queue, task)
                            /\ cycle_raised' = cycle_raised \cup {task}
                            /\ UNCHANGED <<removals, cycle_removed>>
                       ELSE /\ task_queue' = RemoveFirst(task_queue, task)
                            /\ cycle_removed' = Append(cycle_removed, task)
                            /\ removals' = removals \cup
                                 {[task |-> task,
                                   handler |-> IF ~is_email THEN "none"
                                               ELSE IF sent THEN "sent"
                                               ELSE "not sent"]}
                            /\ UNCHANGED cycle_raised
           /\ executable_tasks' =
                  PendingAfter(Tail(executable_tasks), task_queue', mon_now)
           /\ mon_pc' = IF raises /\ OnTaskError # "log" THEN "dead"
                        ELSE IF executable_tasks' = <<>> THEN "sleep"
                        ELSE "exec"
    /\ UNCHANGED <<is_running, now, mon_now, cycle_queue, prev_raised,
                   mail_configured, monitors, cycle_created>>
    /\ UNCHANGED <<engineVars, reqVars>>
    /\ UNCHANGED <<sseVars, histVars, promptVars>>

\* gevent.sleep(10) returns.
PollSleepReturn ==
    /\ mon_pc = "sleep"
    /\ mon_pc' = AfterSleep
    /\ UNCHANGED <<mon_now, executable_tasks, cycle_queue, cycle_attempted,
                   cycle_raised, prev_raised, removals, cycle_removed,
                   monitors, cycle_created>>
    /\ UNCHANGED <<engineVars, reqVars, schedVars, mailVars>>
    /\ UNCHANGED <<sseVars, histVars, promptVars>>

(***************************************************************************)
(* StreamManager.stream_text_generator (src/streaming.py).                 *)
(***************************************************************************)
\* Chunks a wrapped generator can yield.
Chunks == {"tok1", "tok2", "[DONE]"}
ChunkSeqs == UNION {[1..n -> Chunks] : n \in 0..MaxChunks}

\* f"data: {chunk}\n\n"
Frame(chunk) == <<"data: ", chunk, "\n\n">>

\* "data: [DONE]\n\n"
DoneItem == <<"data: ", "[DONE]", "\n\n">>

\* stream_text_generator(generator_func) is called and the response starts
\* to iterate generate().
StreamOpen ==
    /\ sse_pc = "idle"
    /\ \E chunks \in ChunkSeqs, raises \in BOOLEAN :
        /\ sse_source' = chunks
        /\ sse_source_raises' = raises
    /\ sse_pc' = "relaying"
    /\ sse_produced' = <<>>
    /\ sse_out' = <<>>
    /\ UNCHANGED <<engineVars, reqVars, schedVars, monVars, mailVars>>
    /\ UNCHANGED <<histVars, promptVars>>

\* The wrapped generator yields a chunk and generate() yields its frame.
StreamRelay ==
    /\ sse_pc = "relaying"
    /\ sse_source # <<>>
    /\ sse_produced' = Append(sse_produced, Head(sse_source))
    /\ sse_out' = Append(sse_out, Frame(Head(sse_source)))
    /\ sse_source' = Tail(sse_source)
    /\ UNCHANGED <<sse_pc, sse_source_raises>>
    /\ UNCHANGED <<engineVars, reqVars, schedVars, monVars, mailVars>>
    /\ UNCHANGED <<histVars, promptVars>>

\* The wrapped generator raises: generate() has no try block, so the
\* exception leaves it and its last yield is never reached.
StreamSourceRaises ==
    /\ sse_pc = "relaying"
    /\ sse_source = <<>>
    /\ sse_source_raises
    /\ sse_pc' = "raised"
    /\ UNCHANGED <<sse_source, sse_source_raises, sse_produced, sse_out>>
    /\ UNCHANGED <<engineVars, reqVars, schedVars, monVars, mailVars>>
    /\ UNCHANGED <<histVars, promptVars>>

\* The wrapped generator is exhausted: the last yield of generate(), and its
\* end.
StreamDone ==
    /\ sse_pc = "relaying"
    /\ sse_source = <<>>
    /\ ~sse_source_raises
    /\ sse_out' = Append(sse_out, DoneItem)
    /\ sse_pc' = "closed"
    /\ UNCHANGED <<sse_source, sse_source_raises, sse_produced>>
    /\ UNCHANGED <<engineVars, reqVars, schedVars, monVars, mailVars>>
    /\ UNCHANGED <<histVars, promptVars>>

(***************************************************************************)
(* MemoryManager (src/memory_manager.py).                                  *)
(***************************************************************************)
Sessions == {1, 2}
Stamps == {1, 2}

\* A row of the messages table is written (between two history queries: the
\* returned list is compared with the table the query ran on).
AddMessage ==
    /\ hist_pc = "idle"
    /\ Len(msg_store) < MaxMessages
    /\ \E sid \in Sessions, ts \in Stamps :
           msg_store' = Append(msg_store,
               [id |-> Len(msg_store) + 1, session_id |-> sid, timestamp |-> ts])
    /\ UNCHANGED <<hist_pc, hist_args, hist_retrieved, hist_result>>
    /\ UNCHANGED <<engineVars, reqVars, schedVars, monVars, mailVars>>
    /\ UNCHANGED <<sseVars, promptVars>>

\* filter_by(session_id=...).order_by(Message.timestamp.desc()).all(): the
\* rows of the session in an order of non-increasing timestamp; rows of equal
\* timestamp come in an order the store chooses.
Retrievals(store, sid) ==
    LET rows == {store[i] : i \in {j \in DOMAIN store : store[j].session_id = sid}}
        n == Cardinality(rows)
    IN  {q \in [1..n -> rows] :
            /\ \A a, b \in 1..n : a # b => q[a] # q[b]
            /\ \A a, b \in 1..n : a < b => q[a].timestamp >= q[b].timestamp}

\* .limit(n)
Limit(rows, n) == SubSeq(rows, 1, IF n < Len(rows) THEN n ELSE Len(rows))

\* Insertion of a row behind every row whose timestamp is not greater.
InsertByTimestamp(row, rows) ==
    LET k == Cardinality({i \in DOMAIN rows : rows[i].timestamp <= row.timestamp})
    IN  SubSeq(rows, 1, k) \o <<row>> \o SubSeq(rows, k + 1, Len(rows))

RECURSIVE StableSort(_)
StableSort(rows) ==
    IF rows = <<>> THEN <<>>
    ELSE InsertByTimestamp(rows[Len(rows)],
                           StableSort(SubSeq(rows, 1, Len(rows) - 1)))

\* sorted(messages, key=lambda x: x.timestamp)
sorted_AsRetrieved(messages) == messages
sorted(messages) == StableSort(messages)

\* get_chat_history: [] when the query raises.
get_chat_history(retrieved, limit, raises) ==
    IF raises THEN <<>> ELSE sorted(Limit(retrieved, limit))

GetChatHistory ==
    /\ hist_pc = "idle"
    /\ \E sid \in Sessions, limit \in 0..MaxLimit, raises \in BOOLEAN :
        \E retrieved \in Retrievals(msg_store, sid) :
            /\ hist_args' = [session_id |-> sid, limit |-> limit,
                             raised |-> raises]
            /\ hist_retrieved' = IF raises THEN <<>> ELSE retrieved
            /\ hist_result' = get_chat_history(retrieved, limit, raises)
    /\ hist_pc' = "done"
    /\ UNCHANGED msg_store
    /\ UNCHANGED <<engineVars, reqVars, schedVars, monVars, mailVars>>
    /\ UNCHANGED <<sseVars, promptVars>>

\* The caller takes the list.
HistoryTaken ==
    /\ hist_pc = "done"
    /\ hist_pc' = "idle"
    /\ UNCHANGED <<msg_store, hist_args, hist_retrieved, hist_result>>
    /\ UNCHANGED <<engineVars, reqVars, schedVars, monVars, mailVars>>
    /\ UNCHANGED <<sseVars, promptVars>>

PersonaPreamble == "You are ANDSE AI, ... You are currently assisting user: "
PersonaClosing == "Maintain a professional, helpful, and high-energy persona."
AnalysisClause ==
    " Prioritize deep structural analysis and data-driven insights."

\* build_system_prompt(user, user_input)
build_system_prompt_CaseSensitive(user, ui) ==
    <<PersonaPreamble, user.email, PersonaClosing>>
        \o (IF Contains(ui, "analyze") THEN <<AnalysisClause>> ELSE <<>>)
build_system_prompt(user, ui) ==
    <<PersonaPreamble, user.email, PersonaClosing>>
        \o (IF Contains(LowerText(ui), "analyze") THEN <<AnalysisClause>>
            ELSE <<>>)

PromptPhrases == {"hello", "Analyze", "analyzed"}
PromptUtterances == UNION {[1..n -> PromptPhrases] : n \in 1..2}
PromptUsers ==
    {[email |-> e, has_settings |-> b] :
        e \in {"u@example.org", "v@example.org"}, b \in BOOLEAN}

BuildSystemPrompt ==
    /\ Len(prompt_calls) < MaxPromptCalls
    /\ \E user \in PromptUsers, ui \in PromptUtterances :
           prompt_calls' = Append(prompt_calls,
               [user |-> user, user_input |-> ui,
                result |-> build_system_prompt(user, ui)])
    /\ UNCHANGED <<engineVars, reqVars, schedVars, monVars, mailVars>>
    /\ UNCHANGED <<sseVars, histVars>>

(***************************************************************************)
(* Initial states and specifications.                                      *)
(***************************************************************************)
\* NeuralEngine.__init__; GROQ_AVAILABLE is fixed when the module is loaded.
EngineNew ==
    /\ client = FALSE
    /\ groq_client = FALSE
    /\ is_active = FALSE
    /\ think_pc = "idle"
    /\ think_idx = 0
    /\ think_input = <<>>
    /\ think_history = <<>>
    /\ think_instr = DefaultInstruction
    /\ think_config = [client |-> FALSE, groq_client |-> FALSE]
    /\ think_calls = <<>>
    /\ think_result = <<>>

\* No request is being handled.
RequestIdle ==
    /\ req_pc = "idle"
    /\ req_user = [email |-> "", has_settings |-> FALSE]
    /\ req_received = <<>>
    /\ user_input = <<>>
    /\ context_extension = <<>>
    /\ stream = <<>>
    /\ tool_calls = <<>>
    /\ req_error = [at |-> "", type |-> ""]
    /\ final_prompt = <<>>
    /\ memory_log = <<>>
    /\ llm_calls = <<>>

\* AutomationEngine.__init__, and a clock.
SchedulerNew ==
    /\ task_queue = <<>>
    /\ is_running = TRUE
    /\ now = 0

\* The state of a polling loop that has not run yet.
MonitorNew ==
    /\ mon_pc = "top"
    /\ mon_now = 0
    /\ executable_tasks = <<>>
    /\ cycle_queue = <<>>
    /\ cycle_attempted = <<>>
    /\ cycle_raised = {}
    /\ prev_raised = {}
    /\ removals = {}
    /\ cycle_removed = <<>>
    /\ cycle_created = <<>>

MailNew == mail_log = <<>>

\* An empty messages table, and no call of the memory manager yet.
MemoryNew ==
    /\ msg_store = <<>>
    /\ hist_pc = "idle"
    /\ hist_args = [session_id |-> 1, limit |-> 0, raised |-> FALSE]
    /\ hist_retrieved = <<>>
    /\ hist_result = <<>>
    /\ prompt_calls = <<>>

\* No response is being streamed.
StreamIdle ==
    /\ sse_pc = "idle"
    /\ sse_source = <<>>
    /\ sse_source_raises = FALSE
    /\ sse_produced = <<>>
    /\ sse_out = <<>>

\* The engine: configure and think calls.
InitThink ==
    /\ groq_available \in BOOLEAN
    /\ mail_configured = FALSE
    /\ EngineNew /\ RequestIdle /\ SchedulerNew /\ MonitorNew /\ MailNew
    /\ monitors = 0
    /\ StreamIdle /\ MemoryNew
NextThink == Configure \/ Think \/ GroqCall \/ GeminiCall \/ ThinkDone
SpecThink == InitThink /\ [][NextThink]_vars

\* One request from its call to the end of its generator, with the clock;
\* the queue may already hold a task of an earlier producer.
EarlierTask ==
    [type |-> "cleanup", payload |-> [folder |-> "AUDIO_CACHE"],
     trigger_time |-> 1, id |-> TaskId(0)]
InitRequest ==
    /\ groq_available = TRUE
    /\ mail_configured = FALSE
    /\ EngineNew /\ RequestIdle /\ MonitorNew /\ MailNew
    /\ task_queue \in {<<>>, <<EarlierTask>>}
    /\ is_running = TRUE
    /\ now = 0
    /\ monitors = 0
    /\ StreamIdle /\ MemoryNew
NextRequest ==
    \/ StartRequest \/ ResumeSearch \/ ResumeEmail \/ ResumeSchedule
    \/ ResumeScheduleSet \/ ResumeImage \/ ResumeImageOk \/ ResumeImageErr
    \/ Tick
SpecRequest == InitRequest /\ [][NextRequest]_vars

\* The same request with a consumer that may stop iterating.
NextConsume == NextRequest \/ Disconnect
SpecConsume == InitRequest /\ [][NextConsume]_vars

\* The scheduler after one start(): producers, one polling loop, the clock.
\* A producer may run between any two steps of the loop, which covers every
\* point where the loop's greenlet can be switched out (the sleep, and the
\* network calls of a handler).
\* The loop never enters the body of send_email (its call does not bind), so
\* the mail configuration has no part in what the loop does.
InitSched ==
    /\ groq_available = TRUE
    /\ mail_configured = FALSE
    /\ EngineNew /\ RequestIdle /\ SchedulerNew /\ MonitorNew /\ MailNew
    /\ monitors = 1
    /\ StreamIdle /\ MemoryNew
NextSched == CreateTask \/ PollBegin \/ PollExec \/ PollSleepReturn \/ Tick
SpecSched == InitSched /\ [][NextSched]_vars

\* gevent runs the loop's greenlet whenever it is runnable.
SpecSchedFair ==
    SpecSched /\ WF_vars(PollBegin) /\ WF_vars(PollExec)
              /\ WF_vars(PollSleepReturn)

\* The scheduler from its construction, with start() calls, at one instant
\* of the clock; the loop variables are those of the first greenlet.
InitStart ==
    /\ groq_available = TRUE
    /\ mail_configured \in BOOLEAN
    /\ EngineNew /\ RequestIdle /\ SchedulerNew /\ MonitorNew /\ MailNew
    /\ monitors = 0
    /\ StreamIdle /\ MemoryNew
NextStart == Start \/ CreateTask \/ PollBegin \/ PollExec \/ PollSleepReturn
SpecStart == InitStart /\ [][NextStart]_vars

\* One response streamed by stream_text_generator.
InitStream ==
    /\ groq_available = TRUE
    /\ mail_configured = FALSE
    /\ EngineNew /\ RequestIdle /\ SchedulerNew /\ MonitorNew /\ MailNew
    /\ monitors = 0
    /\ StreamIdle /\ MemoryNew
NextStream == StreamOpen \/ StreamRelay \/ StreamSourceRaises \/ StreamDone
SpecStream == InitStream /\ [][NextStream]_vars

\* The memory manager: rows written to the store, history queries and
\* system prompts.
InitMemory == InitStream
NextHistory == AddMessage \/ GetChatHistory \/ HistoryTaken
SpecHistory == InitMemory /\ [][NextHistory]_vars
NextPrompt == BuildSystemPrompt
SpecPrompt == InitMemory /\ [][NextPrompt]_vars

(***************************************************************************)
(* Properties of NeuralEngine.think (checked under SpecThink).             *)
(***************************************************************************)
\* Position of a call's candidate in the priority order: the Groq models in
\* list order, then the Gemini models in list order.
Rank(call) ==
    IF call.provider = "groq" THEN call.index
    ELSE Len(groq_models) + call.index

Failed(call) == call.out \in {Raise, ""}

LastCall == think_calls[Len(think_calls)]

\* C1: the calls of one think run through the candidates in priority order;
\* the first call that returns non-empty text is the last call made, think
\* returns that text, and the number of calls is at most the position of the
\* accepted candidate.
C1_FirstAcceptedEndsFailover ==
    /\ \A m, n \in DOMAIN think_calls :
           m < n => Rank(think_calls[m]) < Rank(think_calls[n])
    /\ \A n \in DOMAIN think_calls :
           ~Failed(think_calls[n]) =>
               /\ n = Len(think_calls)
               /\ think_pc \in {"done", "idle"}
               /\ think_result = <<think_calls[n].out>>
    /\ think_calls # <<>> => Len(think_calls) <= Rank(LastCall)

\* Three Groq models raised, the first Gemini model failed, the second
\* Gemini model answered and think returned its text.
C1_Witness ==
    /\ think_pc = "done"
    /\ Len(think_calls) = 5
    /\ LastCall.provider = "gemini" /\ LastCall.index = 2
    /\ LastCall.out = "beta"
    /\ think_result = <<"beta">>

\* C2: when every call of a think raised or returned empty text, think
\* returns the one offline sentinel of its last line, and no exception
\* leaves think.
C2_AllFailReturnsSentinel ==
    /\ think_pc # "raised"
    /\ (/\ think_pc = "done"
        /\ think_calls # <<>>
        /\ \A n \in DOMAIN think_calls : Failed(think_calls[n]))
       => think_result = <<CriticalFailure>>

\* All seven candidates were called, some raised and some returned empty
\* text, and think returned the sentinel.
C2_Witness ==
    /\ think_pc = "done"
    /\ Len(think_calls) = Len(groq_models) + Len(gemini_models)
    /\ \A n \in DOMAIN think_calls : Failed(think_calls[n])
    /\ \E n \in DOMAIN think_calls : think_calls[n].out = Raise
    /\ \E n \in DOMAIN think_calls : think_calls[n].out = ""
    /\ think_result = <<CriticalFailure>>

\* C3: after a call that returned empty text or raised, the next call is on
\* the immediately next candidate in priority order.
C3_ContinuesWithNextCandidate ==
    \A n \in 1..(Len(think_calls) - 1) :
        Failed(think_calls[n]) =>
            Rank(think_calls[n + 1]) = Rank(think_calls[n]) + 1

(***************************************************************************)
(* Properties of process_request (checked under SpecRequest).              *)
(***************************************************************************)
Tools == {"search", "email", "schedule", "image"}

\* The fixed priority of section 4.2: search, email, schedule, image.
Priority(tool) ==
    CASE tool = "search" -> 1
      [] tool = "email" -> 2
      [] tool = "schedule" -> 3
      [] tool = "image" -> 4

\* The tool a progress fragment announces.
ToolOf(fragment) == CHOOSE tool \in Tools : Progress(tool) = fragment

IsProgress(fragment) == \E tool \in Tools : Progress(tool) = fragment

ProgressFragments == SelectSeq(stream, IsProgress)

ReqFinished == req_pc \in {"done", "raised"}

Count(seq, x) == Cardinality({i \in DOMAIN seq : seq[i] = x})

\* C4: the progress fragments in the stream, and the tool calls, are in the
\* order search, email, schedule, image, wherever the keywords stand in the
\* utterance.
C4_DispatchOrderFixed ==
    /\ \A m, n \in DOMAIN ProgressFragments :
           m < n => Priority(ToolOf(ProgressFragments[m]))
                        < Priority(ToolOf(ProgressFragments[n]))
    /\ \A m, n \in DOMAIN tool_calls :
           m < n => Priority(tool_calls[m]) < Priority(tool_calls[n])

\* The utterance names the image keyword before the reminder keyword and
\* the reminder keyword before the search keyword; the tools ran in the
\* fixed order.
C4_Witness ==
    /\ ReqFinished
    /\ Len(req_received) >= 3
    /\ req_received[1] = "draw"
    /\ req_received[2] = "remind me"
    /\ req_received[3] = "search"
    /\ tool_calls = <<"search", "schedule", "image">>
    /\ Len(ProgressFragments) = 3

\* C5: a request that ran to its end called every tool whose trigger
\* matched exactly once and no other tool.
C5_EveryMatchedToolOnce ==
    ReqFinished =>
        \A tool \in Tools :
            Count(tool_calls, tool) = IF Matches(tool, text_lower) THEN 1 ELSE 0

\* C6: no exception leaves process_request from a tool's block.
C6_ToolFailureNeverAborts ==
    req_pc = "raised" => req_error.at \notin Tools

Reminders == SelectSeq(task_queue, LAMBDA t : t.type = "email_report")

\* C7: a request whose utterance holds "remind me" or "schedule" has
\* appended exactly one email_report task, due 2 minutes after a time of the
\* request, carrying "REMINDER: " and the utterance as received.
C7_ReminderTaskAppended ==
    (ReqFinished /\ Matches("schedule", text_lower)) =>
        /\ Len(Reminders) = 1
        /\ task_queue[Len(task_queue)] = Reminders[1]
        /\ Reminders[1].payload.content = <<"REMINDER: ">> \o req_received
        /\ Reminders[1].payload.email = req_user.email
        /\ Reminders[1].trigger_time - ReminderDelay \in 0..now

\* The fragments a provider's stream can hold, as process_request yields
\* them.
IsGenerated(fragment) ==
    \E inner \in ProviderStreams : \E i \in DOMAIN inner :
        fragment = <<inner[i]>>

GeneratedFragments == SelectSeq(stream, IsGenerated)

\* C18: in the stream every tool progress fragment stands before every
\* fragment of the generation, and when the provider has been called every
\* tool whose trigger matched has run, the reminder of a matched schedule
\* tool is queued, and no tool block is pending.
C18_ToolsBeforeGeneration ==
    /\ \A m, n \in DOMAIN stream :
           (IsProgress(stream[m]) /\ IsGenerated(stream[n])) => m < n
    /\ llm_calls # <<>> =>
           /\ req_pc = "done"
           /\ \A tool \in Tools :
                  Matches(tool, text_lower) => Count(tool_calls, tool) = 1
           /\ Matches("schedule", text_lower) => Reminders # <<>>

\* The provider was called after the search, the reminder and the image
\* tools had run and the reminder was queued.
C18_Witness ==
    /\ llm_calls # <<>>
    /\ tool_calls = <<"search", "schedule", "image">>
    /\ Len(ProgressFragments) = 3
    /\ Len(Reminders) = 1
    /\ llm_calls[1].prompt = final_prompt

\* C19: a request that ran to its end has relayed the fragments of the
\* provider's stream one for one, in order, after the fragments of its
\* tools; with the search and the image tools alone the stream is the search
\* progress, the image progress and the image fragment, then those.
C19_ProviderFragmentsRelayed ==
    req_pc = "done" =>
        /\ llm_calls # <<>>
        /\ GeneratedFragments =
               [i \in DOMAIN llm_calls[1].produced |->
                    <<llm_calls[1].produced[i]>>]
        /\ tool_calls = <<"search", "image">> =>
               /\ Len(stream) >= 3
               /\ stream[1] = Progress("search")
               /\ stream[2] = Progress("image")
               /\ SubSeq(stream, 4, Len(stream)) = GeneratedFragments

\* C21: when the consumer has stopped iterating, every tool whose trigger
\* matched has been invoked all the same and the provider has been called.
C21_DisconnectCancelsNothing ==
    req_pc = "closed" =>
        /\ \A tool \in Tools :
               Matches(tool, text_lower) => Count(tool_calls, tool) = 1
        /\ llm_calls # <<>>

ImageFragmentIn(strm) ==
    \E i \in DOMAIN strm : Head(strm[i]) = "![Generated Image]"

\* The request to explain the image, around the utterance as received.
Explained ==
    <<"I have successfully generated the image. Please explain what I created: ">>
        \o req_received

\* C22: once the image tool has run and the request is over, either an image
\* fragment was emitted and the utterance of the final prompt and of the
\* memory commit is the request to explain the image around the original
\* utterance, or the rendering-error fragment was emitted and that utterance
\* is the original one.
C22_ImageSplicesUtterance ==
    (ReqFinished /\ "image" \in Range(tool_calls)) =>
        LET used == IF ImageFragmentIn(stream) THEN Explained
                    ELSE req_received
        IN  /\ ImageFragmentIn(stream) \/ <<"Rendering Error">> \in Range(stream)
            /\ ~(ImageFragmentIn(stream)
                     /\ <<"Rendering Error">> \in Range(stream))
            /\ user_input = used
            /\ SubSeq(final_prompt, Len(final_prompt) - Len(used),
                      Len(final_prompt)) = <<"User Request: ">> \o used
            /\ req_pc = "done" =>
                   /\ Len(memory_log) = 1
                   /\ memory_log[1].interaction = Slice(used, MemoryCut)

\* The image was created, and the memory commit holds the first 100
\* characters of the request to explain it, which cut the original utterance.
C22_Witness ==
    /\ req_pc = "done"
    /\ ImageFragmentIn(stream)
    /\ user_input = Explained
    /\ Len(memory_log) = 1
    /\ LET kept == memory_log[1].interaction
       IN  /\ kept # <<>>
           /\ kept[Len(kept)].chars < PieceLen(kept[Len(kept)].piece)

\* The pieces the output of a tool is made of.
OutputOf(tool) ==
    CASE tool = "search" -> SearchResults
      [] tool = "email" -> {"Success", "Error"}
      [] tool = "schedule" -> {"Temporal Trigger Set: "}
      [] tool = "image" -> (ImageUrls \ {NoImage}) \cup {"Rendering Error"}

InContext(tool) == Range(context_extension) \cap OutputOf(tool) # {}

C24_CommitOnceAfterGeneration ==
    /\ ReqFinished => Len(memory_log) = 1
    /\ memory_log # <<>> => (llm_calls # <<>> /\ req_pc = "done")
    /\ req_pc = "raised" => req_error.at # "memory"

(***************************************************************************)
(* Properties of the polling loop (checked under SpecSched).               *)
(***************************************************************************)
CycleEnded == mon_pc = "sleep"

\* A task as the reminder branch of process_request creates it.
IsChatReminder(task) ==
    /\ task.type = "email_report"
    /\ Head(task.payload.content) = "REMINDER: "
    /\ task.trigger_time >= ReminderDelay
    /\ task.id = TaskId(task.trigger_time - ReminderDelay)

HandlerRanWith(task) ==
    \E i \in DOMAIN mail_log :
        /\ mail_log[i].recipient = task.payload.email
        /\ mail_log[i].body = task.payload.content

\* C8: at the end of a poll cycle that started with a due reminder of a chat
\* request in the queue, the email handler has run with that task's payload.
C8_DueReminderReachesHandler ==
    CycleEnded =>
        \A i \in DOMAIN cycle_queue :
            (IsChatReminder(cycle_queue[i])
                 /\ cycle_queue[i].trigger_time <= mon_now)
            => HandlerRanWith(cycle_queue[i])

\* C9: at the end of a poll cycle every task that was due when the cycle
\* started has been attempted in it; every task whose attempt raised is
\* still in the queue, unchanged; and every task whose attempt raised in the
\* previous cycle was attempted again in this one.
C9_DueExecutedAndRetried ==
    CycleEnded =>
        /\ \A i \in DOMAIN cycle_queue :
               cycle_queue[i].trigger_time <= mon_now
                   => cycle_queue[i] \in Range(cycle_attempted)
        /\ \A task \in cycle_raised :
               Count(task_queue, task) >= Count(cycle_queue, task)
        /\ \A task \in prev_raised : task \in Range(cycle_attempted)

\* A task failed in one cycle, stayed, and failed again in the next.
C9_Witness ==
    /\ CycleEnded
    /\ \E task \in prev_raised :
           /\ task \in cycle_raised
           /\ task \in Range(cycle_attempted)
           /\ task \in Range(task_queue)

\* C10: every removal the loop makes follows an execution of the task's
\* handler that succeeded.
C10_RemovedOnlyAfterSuccess ==
    \A r \in removals : r.handler = "sent"

\* C11: the loop never removes a task whose kind is not email_report (and
\* runs no handler for it).
C11_UnknownKindNeverRemoved ==
    /\ \A r \in removals : r.task.type = "email_report"
    /\ \A i \in DOMAIN task_queue :
           task_queue[i].type # "email_report"
               => ~HandlerRanWith(task_queue[i])

DueAtStart(task) == task.trigger_time <= mon_now

\* C12: at the end of a poll cycle the tasks removed in it are exactly the
\* tasks that were due when it started and whose try block did not raise;
\* every other task of the queue as it was at the start is still queued.
C12_RemovesExactlyDueCompleted ==
    CycleEnded =>
        /\ Range(cycle_removed) \subseteq Range(cycle_queue)
        /\ \A i \in DOMAIN cycle_queue :
               LET task == cycle_queue[i]
               IN  IF DueAtStart(task) /\ task \notin cycle_raised
                   THEN Count(cycle_removed, task) = Count(cycle_queue, task)
                   ELSE /\ Count(cycle_removed, task) = 0
                        /\ Count(task_queue, task) >= Count(cycle_queue, task)

\* A cycle that started with two due tasks removed one of them and left the
\* other, whose execution raised, in the queue.
C12_Witness ==
    /\ CycleEnded
    /\ Len(cycle_queue) = 2
    /\ Len(cycle_removed) = 1
    /\ \E task \in cycle_raised :
           task \in Range(cycle_queue) /\ task \in Range(task_queue)

LoopAlive == mon_pc \in {"top", "exec", "sleep"}

\* A new cycle has taken its snapshot and is about to run its first task.
CycleBegun == mon_pc = "exec" /\ cycle_attempted = <<>>

C14_FailingTaskRetriedForever ==
    /\ [](\A task \in cycle_raised \cup prev_raised :
              task \in Range(task_queue))
    /\ ((CycleEnded /\ cycle_raised # {})
            ~> (CycleBegun /\ prev_raised # {}
                    /\ prev_raised \subseteq Range(executable_tasks)))

\* At the last instant of the clock a task that failed in the cycle before
\* and in this one is still queued.
C14_Witness ==
    /\ CycleEnded
    /\ now = MaxTime
    /\ \E task \in prev_raised :
           /\ task \in cycle_raised
           /\ task \in Range(task_queue)
           /\ task.trigger_time < now

WellFormed(task) ==
    /\ DOMAIN task = {"type", "payload", "trigger_time", "id"}
    /\ task.type \in TaskTypes
    /\ task.payload \in PayloadsOf(task.type)
    /\ task.trigger_time \in Nat
    /\ task.id \in Nat

\* The queue without its i-th element.
Without(queue, i) ==
    [k \in 1..(Len(queue) - 1) |-> IF k < i THEN queue[k] ELSE queue[k + 1]]

\* C16: every step leaves the queue as it is, or appends one fully formed
\* task to it, or takes out of it one occurrence of the task the loop has
\* just executed; and the loop's snapshot holds fully formed tasks of the
\* queue only.
C16_NoTaskLostOrCorrupted ==
    [][/\ \A i \in DOMAIN executable_tasks' :
              WellFormed(executable_tasks'[i])
       /\ \/ task_queue' = task_queue
          \/ /\ Len(task_queue') = Len(task_queue) + 1
             /\ SubSeq(task_queue', 1, Len(task_queue)) = task_queue
             /\ WellFormed(task_queue'[Len(task_queue')])
          \/ /\ mon_pc = "exec"
             /\ \E i \in DOMAIN task_queue :
                    /\ task_queue[i] = Head(executable_tasks)
                    /\ task_queue' = Without(task_queue, i)]_vars

\* In the middle of a cycle: a task has been removed, a task appended after
\* the snapshot is in the queue, and a task of the snapshot is still to run.
C16_Witness ==
    /\ mon_pc = "exec"
    /\ cycle_removed # <<>>
    /\ \E i \in DOMAIN task_queue : task_queue[i] \notin Range(cycle_queue)
    /\ Head(executable_tasks) \in Range(task_queue)

\* C17: whatever start() calls were made, at most one greenlet runs
\* _monitor_tasks.
C17_AtMostOneLoop == monitors <= 1

(***************************************************************************)
(* Properties of stream_text_generator (checked under SpecStream).         *)
(***************************************************************************)
StreamEnded == sse_pc \in {"closed", "raised"}

Frames(chunks) == [i \in DOMAIN chunks |-> Frame(chunks[i])]

\* C20: while a stream is relayed its items are the frames of the chunks of
\* the wrapped generator, one for one and in order; a stream that has ended
\* is those frames followed by the end-of-stream item, which stands in it
\* once.
C20_RelaysAndEndsWithMarker ==
    /\ sse_pc = "relaying" => sse_out = Frames(sse_produced)
    /\ StreamEnded =>
           /\ sse_out = Append(Frames(sse_produced), DoneItem)
           /\ Count(sse_out, DoneItem) = 1

(***************************************************************************)
(* Properties of MemoryManager (checked under SpecHistory, SpecPrompt).    *)
(***************************************************************************)
SessionRows == {msg_store[i] : i \in {j \in DOMAIN msg_store :
                                 msg_store[j].session_id = hist_args.session_id}}

\* C25: the list get_chat_history returned has at most limit rows, all of
\* the session and no row twice; no row left out is more recent than a row
\* returned; the rows stand in non-decreasing timestamp order; and when the
\* query did not raise none of the limit is left unused.
C25_HistoryRecentAndChronological ==
    hist_pc = "done" =>
        /\ Len(hist_result) <= hist_args.limit
        /\ Range(hist_result) \subseteq SessionRows
        /\ Cardinality(Range(hist_result)) = Len(hist_result)
        /\ \A r \in Range(hist_result), m \in SessionRows \ Range(hist_result) :
               m.timestamp <= r.timestamp
        /\ \A a, b \in DOMAIN hist_result :
               a < b => hist_result[a].timestamp <= hist_result[b].timestamp
        /\ ~hist_args.raised =>
               Len(hist_result) = IF hist_args.limit < Cardinality(SessionRows)
                                  THEN hist_args.limit
                                  ELSE Cardinality(SessionRows)

\* Three rows in the session, two asked for: the store gave the newer row
\* first and the list has the older of the two first; the oldest is left out.
C25_Witness ==
    /\ hist_pc = "done"
    /\ Cardinality(SessionRows) = 3
    /\ hist_args.limit = 2
    /\ Len(hist_result) = 2
    /\ hist_result[1].timestamp < hist_result[2].timestamp
    /\ hist_retrieved[1] = hist_result[2]
    /\ hist_retrieved[3] \notin Range(hist_result)

HasAnalyze(ui) ==
    \E i \in DOMAIN ui : ui[i] \in {"analyze", "Analyze", "analyzed"}

\* C29: the analysis clause stands in the result exactly when the utterance,
\* in any case, contains "analyze"; and two calls whose users have the same
\* identity and whose utterances agree on that return the same text.
C29_SystemPromptDeterministic ==
    /\ \A i \in DOMAIN prompt_calls :
           (AnalysisClause \in Range(prompt_calls[i].result))
               <=> HasAnalyze(prompt_calls[i].user_input)
    /\ \A i, j \in DOMAIN prompt_calls :
           (/\ prompt_calls[i].user.email = prompt_calls[j].user.email
            /\ HasAnalyze(prompt_calls[i].user_input)
                   <=> HasAnalyze(prompt_calls[j].user_input))
           => prompt_calls[i].result = prompt_calls[j].result

\* Two calls for the same identity with different utterances that both hold
\* the word, one of them capitalised, gave the same text with the clause.
C29_Witness ==
    /\ Len(prompt_calls) = 2
    /\ prompt_calls[1].user.email = prompt_calls[2].user.email
    /\ prompt_calls[1].user # prompt_calls[2].user
    /\ prompt_calls[1].user_input = <<"hello", "Analyze">>
    /\ prompt_calls[2].user_input = <<"analyzed">>
    /\ prompt_calls[1].result = prompt_calls[2].result
    /\ AnalysisClause \in Range(prompt_calls[1].result)

(***************************************************************************)
(* Properties of the shared engine: isolation, frame, rendered request.    *)
(***************************************************************************)
\* C26: a running think is not affected by another request: the providers it
\* calls are those the engine held when the call started, so its result is
\* the one it would have had alone.
C26_RequestsShareNoEngineState ==
    \A n \in DOMAIN think_calls :
        /\ think_calls[n].provider = "groq" => think_config.groq_client
        /\ think_calls[n].provider = "gemini" => think_config.client

\* C27: a step of think (its start, a provider call whatever its outcome, its
\* return) leaves the clients, the is_active flag and the availability flag
\* as they were.
C27_ThinkMutatesNoLocalState ==
    [][(think_pc' # think_pc \/ think_calls' # think_calls)
           => /\ client' = client
              /\ groq_client' = groq_client
              /\ is_active' = is_active
              /\ groq_available' = groq_available]_vars

\* A think that called every model of both providers, with raising and empty
\* outcomes, has returned and both clients are still set.
C27_Witness ==
    /\ think_pc = "done"
    /\ Len(think_calls) = Len(groq_models) + Len(gemini_models)
    /\ \E n \in DOMAIN think_calls : think_calls[n].out = Raise
    /\ client
    /\ groq_client
    /\ is_active
    /\ think_config = [client |-> TRUE, groq_client |-> TRUE]

\* What a provider call was given: the utterance, the contents of the turns
\* in order, and the system instruction.
Received(call) ==
    IF call.provider = "groq"
    THEN LET msgs == call.messages
         IN  [utterance |-> msgs[Len(msgs)].content,
              turns |-> [i \in 1..(Len(msgs) - 2) |-> msgs[i + 1].content],
              instruction |-> msgs[1].content]
    ELSE LET contents == call.contents
         IN  [utterance |-> contents[Len(contents)].parts,
              turns |-> [i \in 1..(Len(contents) - 1) |-> contents[i].parts],
              instruction |-> call.config.system_instruction]

\* C28: every provider call of one think received the utterance, the turns
\* of the history in their order and the system instruction that think was
\* called with; so any two of them received the same.
C28_EveryCandidateSameRequest ==
    \A n \in DOMAIN think_calls :
        Received(think_calls[n]) =
            [utterance |-> think_input,
             turns |-> [i \in DOMAIN think_history |-> think_history[i].content],
             instruction |-> think_instr]

\* A think with a two-turn history and a persona went through failed models
\* of both providers.
C28_Witness ==
    /\ Len(think_calls) >= 5
    /\ think_calls[2].provider = "groq"
    /\ think_calls[5].provider = "gemini"
    /\ Len(think_history) = 2
    /\ think_instr = "persona"
    /\ Received(think_calls[2]) = Received(think_calls[5])
    /\ think_calls[2].messages[3].role = "assistant"
    /\ think_calls[5].contents[2].role = "model"

(***************************************************************************)
(* Properties of the task ids.                                             *)
(***************************************************************************)
IdsOf(queue) == [i \in DOMAIN queue |-> queue[i].id]

\* C30: a task that is created gets an id at least as large as the id of
\* every task created before it that is still queued, so the ids in the
\* queue never decrease from an earlier task to a later one; and a step only
\* adds one id at the end or takes one id out, the others staying as they
\* are.
C30_TaskIdsMonotonic ==
    [][/\ \A i, j \in DOMAIN task_queue' :
              i < j => task_queue'[i].id <= task_queue'[j].id
       /\ \/ IdsOf(task_queue') = IdsOf(task_queue)
          \/ /\ Len(task_queue') = Len(task_queue) + 1
             /\ SubSeq(IdsOf(task_queue'), 1, Len(task_queue))
                    = IdsOf(task_queue)
             /\ \A i \in DOMAIN task_queue :
                    task_queue[i].id <= task_queue'[Len(task_queue')].id
          \/ \E i \in DOMAIN task_queue :
                 IdsOf(task_queue') = IdsOf(Without(task_queue, i))]_vars

\* Two tasks created at different times are queued, the clock has moved on
\* again, and the loop has already removed a task.
C30_Witness ==
    /\ Len(task_queue) = 2
    /\ task_queue[1].id < task_queue[2].id
    /\ TaskId(now) > task_queue[2].id
    /\ removals # {}

(***************************************************************************)
(* Properties of one poll cycle: eligibility, order, snapshot, completion. *)
(***************************************************************************)
\* C31: a task of the queue whose trigger_time is later than the time the
\* cycle read at its start is not executed in the cycle and every copy of it
\* is still queued, the same in all fields; every task the cycle executes
\* has a trigger_time that is not later than that time, which is not later
\* than the clock.
C31_NotDueNotExecuted ==
    /\ \A i \in DOMAIN cycle_queue :
           cycle_queue[i].trigger_time > mon_now =>
               /\ cycle_queue[i] \notin Range(cycle_attempted)
               /\ Count(task_queue, cycle_queue[i])
                      >= Count(cycle_queue, cycle_queue[i])
    /\ \A i \in DOMAIN cycle_attempted :
           /\ cycle_attempted[i].trigger_time <= mon_now
           /\ mon_now <= now

\* A cycle has ended that executed and removed a due task and left a task
\* that was not yet due at its start, although the clock has reached that
\* task's trigger_time since.
C31_Witness ==
    /\ CycleEnded
    /\ cycle_removed # <<>>
    /\ \E i \in DOMAIN cycle_queue :
           /\ cycle_queue[i].trigger_time > mon_now
           /\ cycle_queue[i].trigger_time <= now
           /\ cycle_queue[i] \in Range(task_queue)

\* C32: the tasks the cycle has executed, followed by those it has still to
\* execute, are the due tasks of the queue as it was at the start of the
\* cycle, in queue order; and a step of the loop executes one task, the
\* first of those still to execute, whole (its call and its removal or its
\* logged error) before the next one starts.
C32_OneAtATimeInQueueOrder ==
    [][/\ cycle_attempted' \o executable_tasks' =
              SelectSeq(cycle_queue',
                        LAMBDA task : task.trigger_time <= mon_now')
       /\ cycle_attempted' # cycle_attempted =>
              \/ cycle_attempted' = <<>>
              \/ /\ mon_pc = "exec"
                 /\ cycle_attempted' =
                        Append(cycle_attempted, Head(executable_tasks))
                 /\ executable_tasks' = Tail(executable_tasks)]_vars

\* A cycle has executed two different due tasks in queue order: the first
\* raised and stays queued, the second was removed.
C32_Witness ==
    /\ CycleEnded
    /\ Len(cycle_queue) = 2
    /\ cycle_attempted = cycle_queue
    /\ cycle_attempted[1].type = "email_report"
    /\ cycle_attempted[2].type = "cleanup"
    /\ cycle_raised = {cycle_attempted[1]}
    /\ cycle_removed = <<cycle_attempted[2]>>

\* C33: every task the cycle executes is one of the queue as it was when the
\* cycle started; a task that create_task appended since then has not been
\* executed and is still queued, next to the copies the cycle has not
\* executed; and the snapshot of the next cycle holds it when it is due.
C33_SnapshotFixesTheCycle ==
    [][/\ \A i \in DOMAIN cycle_attempted' :
              Count(cycle_attempted', cycle_attempted'[i])
                  <= Count(cycle_queue', cycle_attempted'[i])
       /\ \A i \in DOMAIN cycle_created' :
              Count(task_queue', cycle_created'[i])
                  >= Count(cycle_created', cycle_created'[i])
                     + Count(cycle_queue', cycle_created'[i])
                     - Count(cycle_attempted', cycle_created'[i])
       /\ (mon_pc = "top" /\ mon_pc' # "top") =>
              \A i \in DOMAIN cycle_created :
                  /\ Count(cycle_queue', cycle_created[i])
                         >= Count(cycle_created, cycle_created[i])
                  /\ cycle_created[i].trigger_time <= now =>
                         Count(executable_tasks', cycle_created[i])
                             >= Count(cycle_created, cycle_created[i])]_vars

\* The cycle has executed a task and has another still to execute, and a
\* task that is already due was appended meanwhile.
C33_Witness ==
    /\ mon_pc = "exec"
    /\ cycle_attempted # <<>>
    /\ executable_tasks # <<>>
    /\ cycle_created # <<>>
    /\ cycle_created[1].trigger_time <= mon_now
    /\ cycle_created[1] \notin Range(cycle_queue)
    /\ cycle_created[1] \in Range(task_queue)

\* C34: in a cycle a task is completed (executed without raising) no more
\* often than the queue held copies of it when the cycle started, and every
\* completion has taken one copy out of the queue: the copies queued are
\* those of the start of the cycle, less the completed ones, plus those
\* created since.  So a completed copy is in no later snapshot.
C34_CompletedAtMostOnce ==
    \A x \in Range(cycle_queue) \cup Range(task_queue) :
        /\ Count(cycle_removed, x) <= Count(cycle_queue, x)
        /\ Count(task_queue, x) =
               Count(cycle_queue, x) - Count(cycle_removed, x)
               + Count(cycle_created, x)

\* Two equal tasks were queued, the cycle completed both, and a third equal
\* task created meanwhile is the only one queued.
C34_Witness ==
    /\ CycleEnded
    /\ Len(cycle_removed) = 2
    /\ cycle_removed[1] = cycle_removed[2]
    /\ cycle_created = <<cycle_removed[1]>>
    /\ task_queue = cycle_created

(***************************************************************************)
(* Properties of the engine's readiness and of the image branch of think.  *)
(***************************************************************************)
\* The step in which think is called.
ThinkCalled == think_pc = "idle" /\ think_pc' # "idle"

\* C35: whenever is_active is true a provider client is set; and a think
\* called while is_active is false returns the offline message at once,
\* with no provider call, whether or not a client is set.
C35_ActiveMeansConfigured ==
    [][/\ is_active' => (client' \/ groq_client')
       /\ (ThinkCalled /\ ~is_active) =>
              /\ think_pc' = "done"
              /\ think_result' = <<NeuralOffline>>
              /\ think_calls' = <<>>
       /\ (think_pc' = "done" /\ think_result' = <<NeuralOffline>>) =>
              think_calls' = <<>>]_vars

\* think has returned the offline message without a provider call although
\* both clients were set when it was called and are still set.
C35_Witness ==
    /\ think_pc = "done"
    /\ think_result = <<NeuralOffline>>
    /\ think_calls = <<>>
    /\ ~is_active
    /\ think_config = [client |-> TRUE, groq_client |-> TRUE]
    /\ client
    /\ groq_client

\* The utterance holds one of the four keywords, in any case, possibly
\* inside a longer word.
HasImageKeyword(input) ==
    \E i \in DOMAIN input :
        input[i] \in {"draw", "DRAW", "withdraw", "generate image",
                      "visualize", "paint", "Paint"}

\* C36: a think called on an active engine with an utterance that holds an
\* image keyword returns the image result at once, with no provider call;
\* with any other utterance it enters the failover, at Groq when the Groq
\* client is set and at Gemini otherwise.
C36_ImageKeywordSkipsProviders ==
    [][(ThinkCalled /\ is_active) =>
          IF HasImageKeyword(think_input')
          THEN /\ think_pc' = "done"
               /\ Head(think_result') = "![Output]"
               /\ think_calls' = <<>>
          ELSE /\ think_pc' = IF groq_client THEN "groq" ELSE "gemini"
               /\ think_idx' = 1
               /\ think_calls' = <<>>]_vars

\* An active engine with both clients has returned the image result for
\* "Paint" without a provider call.
C36_Witness ==
    /\ think_pc = "done"
    /\ think_input = <<"Paint">>
    /\ think_result = <<"![Output]", "paint">>
    /\ think_calls = <<>>
    /\ is_active
    /\ think_config = [client |-> TRUE, groq_client |-> TRUE]

(***************************************************************************)
(* Properties of the generation step when the provider fails.              *)
(***************************************************************************)
\* C37: when the provider's stream of a request raises, process_request does
\* not raise; the request ends, the last fragment of its stream is the
\* "Synthesis Interrupted" fragment, and the memory commit was made.
C37_ProviderErrorBecomesFragment ==
    (/\ ReqFinished
     /\ llm_calls # <<>>
     /\ Raise \in Range(llm_calls[Len(llm_calls)].produced))
    => /\ req_pc = "done"
       /\ memory_log # <<>>
       /\ stream # <<>>
       /\ Head(stream[Len(stream)]) = "Synthesis Interrupted: "

====
